---- MODULE Spec2Model ----
(***************************************************************************)
(* CrowdSense mobile client: the useWebSocket hook                         *)
(* (App/hooks/useWebSocket.js), the WebSocketProvider                      *)
(* (App/contexts/WebSocketContext.js), the favourites and theme providers  *)
(* the mock data service (App/services/mockWebSocket.js) and the frame     *)
(* queue, consumer workers and occupancy evaluator of the Model pipeline.  *)
(*                                                                         *)
(* React state is modelled by its committed value.  A handler that changes *)
(* reconnectAttempts makes the memoised `connect` (deps [url,              *)
(* reconnectAttempts]) a new function, so the effect with deps [connect,   *)
(* disconnect] runs again: React commits that render and runs the effect   *)
(* (RunEffect) before it handles any other event.                          *)
(***************************************************************************)
EXTENDS Integers, Sequences, FiniteSets, TLC

\* ---------------------------------------------------------------- bounds
MaxSockets == 6            \* WebSocket objects the hook may create in a run
MaxToggles == 3            \* togglePin calls in a run
MaxThemeCalls == 3         \* toggleTheme / setThemeMode calls in a run
MaxFrames == 2             \* frames each camera captures in a run
QueueCapacity == 2         \* the FrameQueue's configured capacity (QUEUE_CAPACITY)
EnqueueTimeout == 2        \* the enqueue timeout, in clock ticks
MaxZones == 2              \* zones of a camera's configuration
MaxCapacity == 3           \* largest zone capacity
MaxDetected == 4           \* largest per-zone detected count
MaxConsumers == 2          \* consumer workers of the aggregation/evaluation stage
RandomSteps == 8           \* Math.random() is taken to return r / RandomSteps, r in 0..RandomSteps-1
MaxSends == 2              \* sendMessage calls in a run
MaxUpdates == 3            \* arrays the mock service emits in a run

\* ------------------------------------------------------ program constants
MaxReconnectAttempts == 5  \* useWebSocket.js:47
BaseDelay == 1000          \* useWebSocket.js:48
MaxDelay == 30000          \* useWebSocket.js:48

VARIABLES
  lifecycle,            \* "rendered" (first render done), "mounted", "unmounted"
  isConnected,          \* useWebSocket state
  error,                \* useWebSocket state: "null" or a message
  reconnectAttempts,    \* useWebSocket state
  connectDep,           \* reconnectAttempts captured by the current `connect`
  wsRef,                \* wsRef.current: socket id, 0 for null
  reconnectTimeoutRef,  \* reconnectTimeoutRef.current: timer id, 0 for null
  sockets,              \* every WebSocket created, by id
  timers,               \* pending setTimeout callbacks: id -> delay, 0 = none
  nSockets,             \* number of WebSocket objects created so far
  messageHandlers,      \* messageHandlersRef.current: the registered handlers, in order
  inbox,                \* the parsed data of a frame the server sent, not yet delivered
  crowdData,            \* WebSocketProvider state: location id -> entry
  favStorage,           \* AsyncStorage item '@crowdsense_favorites'
  favOps,               \* AsyncStorage requests of FavoritesProvider not yet served, in order
  favLoad,              \* loadPinnedLocations: "idle", "requested", "resolved", "done"
  favGot,               \* what getItem resolved with
  pinnedLocations,      \* FavoritesProvider state
  favLoading,           \* FavoritesProvider state `loading`
  nToggles,             \* togglePin calls so far
  themeStorage,         \* AsyncStorage item '@crowdsense_theme': "null" or the text
  themeOps,             \* AsyncStorage requests of ThemeProvider not yet served, in order
  themeLoad,            \* loadTheme: "idle", "requested", "resolved", "done"
  themeGot,             \* what getItem resolved with
  theme,                \* ThemeProvider state
  isLoading,            \* ThemeProvider state
  nThemeCalls,          \* toggleTheme / setThemeMode calls so far
  queue,                \* FrameQueue: the frames held, oldest first
  producer,             \* per camera: pc, the frame being enqueued, ticks waited, frames captured
  drops,                \* frames dropped on saturation
  dequeued,             \* number of frames the consumers took
  realWebSocket,        \* the hook's return value the provider effect closed over
  pIsConnected,         \* WebSocketProvider state
  pError,               \* WebSocketProvider state
  pReconnectAttempts,   \* WebSocketProvider state
  lastDelay,            \* history, while mounted: delay scheduled by the latest onclose since the last open
  failCount,            \* history, while mounted: unrequested closes since the last open
  failDelay,            \* history, while mounted: delay the latest unrequested close scheduled, 0 = none
  cycles,               \* history: reconnect timers fired since the last open
  firedRA,              \* history: reconnectAttempts right after the latest timer fired
  polled,               \* history: updateConnectionState ran since isConnected last changed
  zones,                \* OccupancyEvaluator input: the camera's zone capacities, in order
  detected,             \* OccupancyEvaluator input: per-zone detected counts
  summary,              \* OccupancyEvaluator output: zone occupancies and the Summary
  poolSize,             \* consumer workers started
  worker,               \* per consumer worker: pc and the frame in hand
  delivered,            \* payloads handed to the publisher's send loop, in order
  skipped,              \* frames skipped after a detector error
  useMockData,          \* config/websocket.js USE_MOCK_DATA
  mockWS,               \* the mock service createMockWebSocket returned
  randoms,              \* what Math.random() returns in the observed generateMockData call
  mockData,             \* the array the observed generateMockData call returned
  nSends,               \* sendMessage calls so far
  transmitted,          \* messages handed to WebSocket.send, per socket
  sendResult,           \* what the latest sendMessage returned: "none", "true", "false"
  invoked,              \* the handlers the latest ws.onmessage called, in order
  thrown,               \* the handler that threw in the latest ws.onmessage, or "none"
  lastParse             \* the latest ws.onmessage: "none", "failed", "ok", "okAfterFailed"

hookVars == <<lifecycle, isConnected, error, reconnectAttempts, connectDep, wsRef,
              reconnectTimeoutRef, sockets, timers, nSockets>>
dataVars == <<inbox, crowdData>>
favVars == <<favStorage, favOps, favLoad, favGot, pinnedLocations, favLoading, nToggles>>
themeVars == <<themeStorage, themeOps, themeLoad, themeGot, theme, isLoading, nThemeCalls>>
queueVars == <<queue, producer, drops, dequeued>>
evalVars == <<zones, detected, summary>>
pipeVars == <<poolSize, worker, delivered, skipped>>
modelVars == <<evalVars, pipeVars>>
mockVars == <<useMockData, mockWS, randoms, mockData>>
sendVars == <<nSends, transmitted, sendResult>>
listenVars == <<invoked, thrown, lastParse>>
appVars == <<mockVars, sendVars, listenVars>>
otherVars == <<dataVars, favVars, themeVars, queueVars, modelVars, appVars>>

providerVars == <<realWebSocket, pIsConnected, pError, pReconnectAttempts>>
historyVars == <<lastDelay, failCount, failDelay, cycles, firedRA, polled>>
clientVars == <<hookVars, messageHandlers, providerVars, historyVars, dataVars, appVars>>
vars == <<hookVars, messageHandlers, providerVars, historyVars, otherVars>>

SocketIds == 1..MaxSockets

Min(a, b) == IF a < b THEN a ELSE b
Max(a, b) == IF a > b THEN a ELSE b

\* Math.min(1000 * Math.pow(2, reconnectAttempts), 30000)
Delay(k) == Min(BaseDelay * (2 ^ k), MaxDelay)

\* if (reconnectAttempts < 5), on the value the closure captured
ShouldReconnect_flipped(k) == k > MaxReconnectAttempts
ShouldReconnect(k) == k < MaxReconnectAttempts

NoSocket == [st |-> "none", ra |-> 0, requested |-> FALSE, closedAt |-> 0]

\* new WebSocket(url) inside connect, whose handlers capture reconnectAttempts = k
NewSocket(k) == [st |-> "connecting", ra |-> k, requested |-> FALSE, closedAt |-> 0]

Live(s) == sockets[s].st \in {"connecting", "open", "closing"}

\* the effect [connect, disconnect] has a new `connect` to run
EffectPending == lifecycle = "mounted" /\ reconnectAttempts # connectDep

\* a state setter of the hook: ignored once the component is unmounted
SetState(old, new) == IF lifecycle = "mounted" THEN new ELSE old

\* wsRef.current.close() in disconnect: close() of a closed socket does nothing
CloseCurrent(ss) ==
  IF wsRef # 0 /\ ss[wsRef].st \in {"connecting", "open"}
  THEN [ss EXCEPT ![wsRef].st = "closing", ![wsRef].requested = TRUE]
  ELSE ss

\* clearTimeout(reconnectTimeoutRef.current) in disconnect (the ref is not reset)
ClearTimer(ts) ==
  IF reconnectTimeoutRef # 0 THEN [ts EXCEPT ![reconnectTimeoutRef] = 0] ELSE ts

\* ------------------------------------------------- messages and crowd data

\* Strings that the code transforms are sequences of characters.
UpperChars == <<"A", "B", "C", "D", "E", "F", "G", "H", "I", "J", "K", "L", "M", "N", "O", "P", "Q", "R", "S", "T", "U", "V", "W", "X", "Y", "Z">>
LowerChars == <<"a", "b", "c", "d", "e", "f", "g", "h", "i", "j", "k", "l", "m", "n", "o", "p", "q", "r", "s", "t", "u", "v", "w", "x", "y", "z">>

\* String.prototype.toLowerCase
ToLowerCase(str) ==
  [i \in 1..Len(str) |->
     IF \E j \in 1..Len(UpperChars) : UpperChars[j] = str[i]
     THEN LowerChars[CHOOSE j \in 1..Len(UpperChars) : UpperChars[j] = str[i]]
     ELSE str[i]]

RECURSIVE TrimStart(_)
TrimStart(str) == IF str # <<>> /\ Head(str) = " " THEN TrimStart(Tail(str)) ELSE str

RECURSIVE TrimEnd(_)
TrimEnd(str) ==
  IF str # <<>> /\ str[Len(str)] = " " THEN TrimEnd(SubSeq(str, 1, Len(str) - 1)) ELSE str

\* String.prototype.trim
Trim(str) == TrimEnd(TrimStart(str))

\* nameMap of getLocationIdByName: <<key, id>>
nameMap == {
  <<<<"f", "l", "i", "n", "t", " ", "l", "o", "o", "p">>, "flint">>,
  <<<<"f", "l", "i", "n", "t">>, "flint">>,
  <<<<"o", "n", "e", " ", "w", "o", "r", "l", "d">>, "ow">>,
  <<<<"o", "w">>, "ow">>,
  <<<<"s", "t", "u", "d", "e", "n", "t", " ", "u", "n", "i", "o", "n", " ", "1">>, "su">>,
  <<<<"s", "t", "u", "d", "e", "n", "t", " ", "u", "n", "i", "o", "n", " ", "2">>, "su">>,
  <<<<"s", "t", "u", "d", "e", "n", "t", " ", "u", "n", "i", "o", "n", " ", "3">>, "su_full">>,
  <<<<"s", "u">>, "su">>,
  <<<<"p", "a", "u", "l", "a", " ", "p", "l", "a", "z", "a">>, "paula">>,
  <<<<"p", "a", "u", "l", "a">>, "paula">>,
  <<<<"t", "i", "m", " ", "h", "o", "r", "t", "o", "n", "s">>, "tims">>,
  <<<<"t", "i", "m", "s">>, "tims">>
}

LocationIds == {"flint", "ow", "su", "su_full", "paula", "tims"}

\* nameMap is an object literal, so nameMap[key] also finds the properties it
\* inherits from Object.prototype; the lower-case ones are constructor (the
\* function Object) and __proto__ (Object.prototype itself), both truthy.
\* <<key, the property key the value becomes in { [locationId]: ... }>>
ObjectPrototype == {
  <<<<"c", "o", "n", "s", "t", "r", "u", "c", "t", "o", "r">>,
    "function Object() { [native code] }">>,
  <<<<"_", "_", "p", "r", "o", "t", "o", "_", "_">>, "[object Object]">>
}

\* the keys crowdData can come to hold
CrowdKeys == LocationIds \cup {e[2] : e \in ObjectPrototype}

\* null as a location id
Null == "null"

\* null (or undefined) where the code expects a string
NullName == <<"<null>">>

\* an optional number: <<>> for null or undefined, <<n>> for the number n
NullNumber == <<>>
Number(n) == <<n>>

\* getLocationIdByName: locationName?.toLowerCase().trim(), then nameMap[...] || null
getLocationIdByName(locationName) ==
  IF locationName = NullName THEN Null
  ELSE LET normalizedName == Trim(ToLowerCase(locationName))
       IN IF \E e \in nameMap : e[1] = normalizedName
          THEN (CHOOSE e \in nameMap : e[1] = normalizedName)[2]
          ELSE IF \E e \in ObjectPrototype : e[1] = normalizedName
          THEN (CHOOSE e \in ObjectPrototype : e[1] = normalizedName)[2]
          ELSE Null

\* calculateCrowdLevel
calculateCrowdLevel(occupancyPercent) ==
  IF occupancyPercent = NullNumber THEN "unknown"
  ELSE IF occupancyPercent[1] < 33 THEN "low"
  ELSE IF occupancyPercent[1] < 67 THEN "medium"
  ELSE "high"

\* the location names, counts and percentages the server is taken to send
Names == { <<"F", "l", "i", "n", "t", " ", "L", "o", "o", "p">>,
           <<" ", "O", "W", " ">>,
           <<"F", "l", "i", "n", "t", " ", "H", "a", "l", "l">>,
           NullName }
Counts == {0, 7}
Percents == {NullNumber, Number(32), Number(33), Number(66), Number(67)}

Messages == [location_name : Names, people_detected : Counts, occupancy_percent : Percents]

\* a frame's parsed data: one message object, or an array of at most two
Frames == [kind : {"object"}, items : {<<m>> : m \in Messages}]
            \cup [kind : {"array"}, items : {<<m1, m2>> : m1 \in Messages, m2 \in Messages}]

NoFrame == [kind |-> "none", items |-> <<>>]

\* a frame whose text is not JSON, and the frame whose text is the JSON null
InvalidFrame == [kind |-> "invalid", items |-> <<>>]
NullFrame == [kind |-> "null", items |-> <<>>]

\* the frames sent to the listeners: not JSON, null, and one message object
ListenerFrames ==
  {InvalidFrame, NullFrame,
   [kind |-> "object",
    items |-> <<[location_name |-> <<"F", "l", "i", "n", "t", " ", "L", "o", "o", "p">>,
                 people_detected |-> 7, occupancy_percent |-> Number(66)]>>]}

\* frames of one or two messages for Flint Loop, One World, a name nameMap
\* lacks, a null name and the name "constructor"
EffectNames == { <<"F", "l", "i", "n", "t", " ", "L", "o", "o", "p">>,
                 <<" ", "O", "W", " ">>,
                 <<"F", "l", "i", "n", "t", " ", "H", "a", "l", "l">>,
                 NullName,
                 <<"c", "o", "n", "s", "t", "r", "u", "c", "t", "o", "r">> }
EffectMessages ==
  [location_name : EffectNames, people_detected : Counts, occupancy_percent : {Number(32)}]
EffectFrames ==
  [kind : {"object"}, items : {<<m>> : m \in EffectMessages}]
    \cup [kind : {"array"}, items : {<<m1, m2>> : m1 \in EffectMessages, m2 \in EffectMessages}]

\* JSON.parse(event.data): throws a SyntaxError on text that is not JSON
JSONParse_lenient(frame) == [ok |-> TRUE, data |-> frame]
JSONParse(frame) ==
  IF frame.kind = "invalid" THEN [ok |-> FALSE, data |-> NoFrame] ELSE [ok |-> TRUE, data |-> frame]
NoEntry == [present |-> FALSE]

\* the object setCrowdData stores under locationId (lastUpdated is not modelled)
Entry_levelFromCount(msg) ==
  [present |-> TRUE,
   count |-> msg.people_detected,
   level |-> calculateCrowdLevel(Number(msg.people_detected)),
   occupancyPercent |-> msg.occupancy_percent,
   locationName |-> msg.location_name]
Entry(msg) ==
  [present |-> TRUE,
   count |-> msg.people_detected,
   level |-> calculateCrowdLevel(msg.occupancy_percent),
   occupancyPercent |-> msg.occupancy_percent,
   locationName |-> msg.location_name]

\* one turn of messages.forEach in the provider's handler
ApplyMessage(cd, msg) ==
  LET locationId == getLocationIdByName(msg.location_name)
  IN IF locationId # Null THEN [cd EXCEPT ![locationId] = Entry(msg)] ELSE cd

\* const messages = Array.isArray(message) ? message : [message]; messages.forEach(...)
RECURSIVE ApplyAll(_, _)
ApplyAll(cd, messages) ==
  IF messages = <<>> THEN cd ELSE ApplyAll(ApplyMessage(cd, Head(messages)), Tail(messages))

\* the handler WebSocketProvider registers with realWebSocket.onMessage
ProviderHandler(cd, frame) == ApplyAll(cd, frame.items)

\* another caller of onMessage; its handler returns normally
Listeners == {"h1"}

\* msg.location_name of a null msg is a TypeError in the provider's handler
Throws(handler, data) == handler = "provider" /\ data.kind = "null"

\* the index of the first handler of the list that throws on data, or 0
FirstThrow(handlers, data) ==
  IF \E i \in 1..Len(handlers) : Throws(handlers[i], data)
  THEN CHOOSE i \in 1..Len(handlers) :
         /\ Throws(handlers[i], data)
         /\ \A j \in 1..(i - 1) : ~Throws(handlers[j], data)
  ELSE 0

\* messageHandlersRef.current.forEach(handler => handler(data)) inside the try:
\* the handlers called, up to and including the first one that throws
Invoked(handlers, data) ==
  IF FirstThrow(handlers, data) = 0 THEN handlers
  ELSE SubSeq(handlers, 1, FirstThrow(handlers, data))

\* the unsubscribe function onMessage returns: filter(h => h !== handler)
Unsubscribe(handlers, h) == SelectSeq(handlers, LAMBDA x : x # h)

\* ------------------------------------------------------------ mock service

\* a number with one decimal, given in tenths: <<whole>> or <<whole, tenth>>
Decimal(tenths) ==
  IF tenths % 10 = 0 THEN Number(tenths \div 10) ELSE <<tenths \div 10, tenths % 10>>

\* MOCK_DATA (the timestamps are not modelled)
MOCK_DATA ==
  << [location_name |-> <<"F", "l", "i", "n", "t", " ", "H", "a", "l", "l">>,
      people_detected |-> 4, occupancy_percent |-> Decimal(255)],
     [location_name |-> <<"O", "'", "B", "r", "i", "a", "n", " ", "H", "a", "l", "l">>,
      people_detected |-> 16, occupancy_percent |-> Decimal(650)],
     [location_name |-> <<"S", "t", "u", "d", "e", "n", "t", " ", "U", "n", "i", "o", "n">>,
      people_detected |-> 8, occupancy_percent |-> Decimal(400)],
     [location_name |-> <<"P", "a", "u", "l", "a", " ", "P", "l", "a", "z", "a">>,
      people_detected |-> 2, occupancy_percent |-> Decimal(100)],
     [location_name |-> <<"T", "i", "m", " ", "H", "o", "r", "t", "o", "n", "s", " ", "S", "t", "u", "d", "y", " ", "A", "r", "e", "a">>,
      people_detected |-> 12, occupancy_percent |-> Decimal(550)] >>

\* Math.random() returns r / RandomSteps for some r of
RandomDraws == 0..(RandomSteps - 1)

\* Math.round of num / den: the nearest integer, halves upwards
MathRound(num, den) == (2 * num + den) \div (2 * den)

\* variation = (Math.random() - 0.5) * 4;
\* newCount = Math.max(0, Math.round(location.people_detected + variation))
NewCount(people_detected, r) ==
  Max(0, MathRound(RandomSteps * people_detected + 4 * r - 2 * RandomSteps, RandomSteps))

maxCapacity == 20

\* Math.min(100, Math.max(0, (newCount / maxCapacity) * 100)), in hundredths of a percent
NewOccupancy_capacity16Unclamped(newCount) == (newCount * 10000) \div 16
NewOccupancy(newCount) == Min(10000, Max(0, (newCount * 10000) \div maxCapacity))

\* parseFloat(x.toFixed(1)), of x in hundredths
ToFixed1(hundredths) == Decimal((hundredths + 5) \div 10)

\* the record generateMockData maps a MOCK_DATA entry to
GenerateRecord(location, r) ==
  LET newCount == NewCount(location.people_detected, r)
  IN [location_name |-> location.location_name,
      people_detected |-> newCount,
      occupancy_percent |-> ToFixed1(NewOccupancy(newCount))]

\* generateMockData, rs[i] being the random draw for entry i
generateMockData(rs) == [i \in 1..Len(MOCK_DATA) |-> GenerateRecord(MOCK_DATA[i], rs[i])]

\* the random draws of one generateMockData call
RandomVectors == [1..Len(MOCK_DATA) -> RandomDraws]

\* every array a generateMockData call can return
GeneratedArrays == {generateMockData(rs) : rs \in RandomVectors}

\* the mock service created by createMockWebSocket: its isConnected flag, the
\* 500 ms connect timeout pending, the 3 s update interval set, its messageCount
NoMock == [created |-> FALSE, isConnected |-> FALSE, timeout |-> FALSE, interval |-> FALSE,
           messageCount |-> 0]

\* the message callback WebSocketProvider passes to createMockWebSocket
MockHandler(cd, data) == ApplyAll(cd, data)

\* ------------------------------------------------------------- AsyncStorage

\* an AsyncStorage item that does not exist: getItem resolves with null
NoItem == [present |-> FALSE]

\* JSON.stringify of an array of location ids, as the stored text
Stringify(list) == [present |-> TRUE, json |-> list]

\* JSON.parse of a stored text
Parse(text) == text.json

GetRequest == [op |-> "get"]
SetRequest(text) == [op |-> "set", text |-> text]

\* no setItem is in flight
NoWriteInFlight(ops) == \A i \in 1..Len(ops) : ops[i].op # "set"

\* ---------------------------------------------------------------- favourites

PinIds == {"flint", "ow"}

\* what an earlier session can have left under FAVORITES_KEY
StoredFavorites == {NoItem, Stringify(<<>>), Stringify(<<"flint">>)}

\* the updater of togglePin: prev.includes(id) ? prev.filter(x => x !== id) : [...prev, id]
Toggled(prev, locationId) ==
  IF \E i \in 1..Len(prev) : prev[i] = locationId
  THEN SelectSeq(prev, LAMBDA x : x # locationId)
  ELSE Append(prev, locationId)

\* ------------------------------------------------------------------- theme

ThemeModes == {"light", "dark"}

\* what an earlier session can have left under THEME_STORAGE_KEY
StoredThemes == {"null", "light", "dark"}

\* the modes a caller passes to setThemeMode
RequestedModes == {"light", "dark", "system"}

\* --------------------------------------------------------------- FrameQueue

Cameras == {"A", "B"}

\* the queue has room for one more frame
HasRoom_offByOne(q) == Len(q) <= QueueCapacity
HasRoom(q) == Len(q) < QueueCapacity

\* the pool of consumer workers of the aggregation/evaluation stage
Workers == 1..MaxConsumers

IdleWorker == [pc |-> "idle", frame |-> <<>>]

\* a consumer worker after the detector raised on its frame: the error is caught
\* and logged, the frame is skipped and the worker takes the next frame
AfterDetectorError_crash(w) == [pc |-> "dead", frame |-> <<>>]
AfterDetectorError(w) == IdleWorker

\* the OutgoingPayload of a frame (its summary is not modelled)
Payload(frame) == [camera |-> frame.camera, seq |-> frame.seq]

\* ResultSink hands a payload to the publisher through a first-in first-out queue
Forward_newestFirst(sent, payload) == <<payload>> \o sent
Forward(sent, payload) == Append(sent, payload)

\* a blocked enqueue has waited out its timeout
TimeoutDue(c) == producer[c].pc = "blocked" /\ producer[c].waited >= EnqueueTimeout

\* ------------------------------------------------------- OccupancyEvaluator

\* the zone capacity of the spec's scenario (one zone of capacity 10)
ScenarioCapacity == 10

\* a ZoneDefinition's capacity: an integer >= 1
Capacities == (1..MaxCapacity) \cup {ScenarioCapacity}

\* a camera's zones: an ordered, non-empty list, here of the zones' capacities;
\* a zone is named by its index in the list
ZoneLists == UNION {[1..n -> Capacities] : n \in 1..MaxZones}

\* the per-zone counts the detections of one composite image partition into
DetectedCounts(zs) == [1..Len(zs) -> 0..MaxDetected]

\* occupancy percent = min(detected / capacity, 1) * 100, in whole percent
OccupancyPercent_unclamped(d, capacity) == (d * 100) \div capacity
OccupancyPercent(d, capacity) == Min((d * 100) \div capacity, 100)

\* free slots = max(capacity - detected, 0)
FreeSlots(d, capacity) == Max(capacity - d, 0)

ZoneOccupancy(zs, ds, i) ==
  [zone |-> i, capacity |-> zs[i], detected |-> ds[i],
   percent |-> OccupancyPercent(ds[i], zs[i]), free_slots |-> FreeSlots(ds[i], zs[i])]

RECURSIVE SumSeq(_)
SumSeq(ds) == IF ds = <<>> THEN 0 ELSE Head(ds) + SumSeq(Tail(ds))

\* the zones in configuration order
ZoneOrder(zs) == [i \in 1..Len(zs) |-> i]

\* a zone is "occupied" when its detected count is > 0, "free" otherwise
IsOccupied(zs, ds, i) == ds[i] > 0

\* Summary: total people, the free zones and the occupied zones
Summarise(zs, ds) ==
  [done |-> TRUE,
   occupancies |-> [i \in 1..Len(zs) |-> ZoneOccupancy(zs, ds, i)],
   total_people |-> SumSeq(ds),
   free |-> SelectSeq(ZoneOrder(zs), LAMBDA i : ~IsOccupied(zs, ds, i)),
   occupied |-> SelectSeq(ZoneOrder(zs), LAMBDA i : IsOccupied(zs, ds, i))]

NoSummary == [done |-> FALSE]

\* useWebSocket and WebSocketProvider after their first render
InitClient ==
  /\ lifecycle = "rendered"
  /\ isConnected = FALSE
  /\ error = "null"
  /\ reconnectAttempts = 0
  /\ connectDep = 0
  /\ wsRef = 0
  /\ reconnectTimeoutRef = 0
  /\ sockets = [s \in SocketIds |-> NoSocket]
  /\ timers = [s \in SocketIds |-> 0]
  /\ nSockets = 0
  /\ messageHandlers = <<>>
  /\ inbox = NoFrame
  /\ crowdData = [id \in CrowdKeys |-> NoEntry]
  /\ realWebSocket = [isConnected |-> FALSE, error |-> "null", reconnectAttempts |-> 0]
  /\ pIsConnected = FALSE
  /\ pError = "null"
  /\ pReconnectAttempts = 0
  /\ lastDelay = 0
  /\ failCount = 0
  /\ failDelay = 0
  /\ cycles = 0
  /\ firedRA = 0
  /\ polled = FALSE

\* FavoritesProvider after its first render, over what storage holds
InitFav(stored) ==
  /\ favStorage = stored
  /\ favOps = <<>>
  /\ favLoad = "idle"
  /\ favGot = NoItem
  /\ pinnedLocations = <<>>
  /\ favLoading = TRUE
  /\ nToggles = 0

\* ThemeProvider after its first render, over what storage holds
InitTheme(stored) ==
  /\ themeStorage = stored
  /\ themeOps = <<>>
  /\ themeLoad = "idle"
  /\ themeGot = "null"
  /\ theme = "dark"
  /\ isLoading = TRUE
  /\ nThemeCalls = 0

\* the FrameQueue and the camera workers at start
InitQueue ==
  /\ queue = <<>>
  /\ producer = [c \in Cameras |-> [pc |-> "idle", waited |-> 0, captured |-> 0]]
  /\ drops = 0
  /\ dequeued = 0

\* the consumer workers at start, n of them started
InitPipe(n) ==
  /\ poolSize = n
  /\ worker = [w \in Workers |-> IdleWorker]
  /\ delivered = <<>>
  /\ skipped = {}

\* the configuration flag, the mock service and the observations of the hook's
\* sendMessage and ws.onmessage
InitApp(mock, rs) ==
  /\ useMockData = mock
  /\ mockWS = NoMock
  /\ randoms = rs
  /\ mockData = <<>>
  /\ nSends = 0
  /\ transmitted = [s \in SocketIds |-> 0]
  /\ sendResult = "none"
  /\ invoked = <<>>
  /\ thrown = "none"
  /\ lastParse = "none"

\* the evaluator before its first composite image, for a camera with zones zs
InitEval(zs) ==
  /\ zones = zs
  /\ detected = <<>>
  /\ summary = NoSummary

\* the pipeline of the Model service with one camera of one zone and one consumer
InitModel == InitQueue /\ InitEval(<<ScenarioCapacity>>) /\ InitPipe(1)

\* a first launch: nothing stored yet, the configuration as committed
Init == InitClient /\ InitApp(FALSE, <<>>) /\ InitFav(NoItem) /\ InitTheme("null") /\ InitModel

\* a launch over the favourites an earlier session stored
InitStoredFavorites ==
  /\ InitClient
  /\ InitApp(FALSE, <<>>)
  /\ \E stored \in StoredFavorites : InitFav(stored)
  /\ InitTheme("null")
  /\ InitModel

\* a launch over the theme an earlier session stored
InitStoredTheme ==
  /\ InitClient
  /\ InitApp(FALSE, <<>>)
  /\ InitFav(NoItem)
  /\ \E stored \in StoredThemes : InitTheme(stored)
  /\ InitModel

\* the evaluator over every zone configuration within the bounds
InitOccupancy ==
  /\ InitClient
  /\ InitApp(FALSE, <<>>)
  /\ InitFav(NoItem)
  /\ InitTheme("null")
  /\ InitQueue
  /\ \E zs \in ZoneLists : InitEval(zs)
  /\ InitPipe(1)

\* The effects of the first commit: useWebSocket's effect calls connect(); the
\* provider's effect closes over the hook's return value of that render and
\* calls updateConnectionState() once.
MountEffect ==
  /\ lifecycle = "rendered"
  /\ lifecycle' = "mounted"
  /\ sockets' = [sockets EXCEPT ![nSockets + 1] = NewSocket(reconnectAttempts)]
  /\ wsRef' = nSockets + 1
  /\ nSockets' = nSockets + 1
  /\ IF useMockData
     THEN /\ mockWS' = [created |-> TRUE, isConnected |-> FALSE, timeout |-> TRUE,
                        interval |-> FALSE, messageCount |-> 0]
          /\ UNCHANGED <<providerVars, polled, messageHandlers>>
     ELSE /\ realWebSocket' = [isConnected |-> isConnected, error |-> error,
                               reconnectAttempts |-> reconnectAttempts]
          /\ pIsConnected' = isConnected
          /\ pError' = error
          /\ pReconnectAttempts' = reconnectAttempts
          /\ polled' = TRUE
          /\ messageHandlers' = Append(messageHandlers, "provider")
          /\ UNCHANGED mockWS
  /\ UNCHANGED <<isConnected, error, reconnectAttempts, connectDep, reconnectTimeoutRef,
                 timers, lastDelay, failCount, failDelay, cycles, firedRA>>
  /\ UNCHANGED <<dataVars, favVars, themeVars, queueVars, modelVars, useMockData, randoms, mockData,
                 sendVars, listenVars>>

\* ws.onopen
OnOpen(s) ==
  /\ ~EffectPending
  /\ sockets[s].st = "connecting"
  /\ sockets' = [sockets EXCEPT ![s].st = "open"]
  /\ isConnected' = SetState(isConnected, TRUE)
  /\ error' = SetState(error, "null")
  /\ reconnectAttempts' = SetState(reconnectAttempts, 0)
  /\ lastDelay' = 0
  /\ failCount' = 0
  /\ failDelay' = 0
  /\ cycles' = 0
  /\ firedRA' = 0
  /\ polled' = (polled /\ isConnected' = isConnected)
  /\ UNCHANGED <<lifecycle, connectDep, wsRef, reconnectTimeoutRef, timers, nSockets,
                 providerVars>>
  /\ UNCHANGED <<messageHandlers, otherVars>>

\* ws.onerror: the connection failed; the close event follows
OnError(s) ==
  /\ ~EffectPending
  /\ sockets[s].st \in {"connecting", "open"}
  /\ sockets' = [sockets EXCEPT ![s].st = "closing"]
  /\ error' = SetState(error, "Connection error")
  /\ isConnected' = SetState(isConnected, FALSE)
  /\ polled' = (polled /\ isConnected' = isConnected)
  /\ UNCHANGED <<lifecycle, reconnectAttempts, connectDep, wsRef, reconnectTimeoutRef,
                 timers, nSockets, providerVars, lastDelay, failCount, failDelay,
                 cycles, firedRA>>
  /\ UNCHANGED <<messageHandlers, otherVars>>

\* ws.onclose, of a socket the peer closed, that failed, or that close() closed
OnClose(s) ==
  /\ ~EffectPending
  /\ Live(s)
  /\ sockets' = [sockets EXCEPT ![s].st = "closed", ![s].closedAt = nSockets]
  /\ isConnected' = SetState(isConnected, FALSE)
  /\ polled' = (polled /\ isConnected' = isConnected)
  /\ IF ShouldReconnect(sockets[s].ra)
     THEN /\ timers' = [timers EXCEPT ![s] = Delay(sockets[s].ra)]
          /\ reconnectTimeoutRef' = s
     ELSE UNCHANGED <<timers, reconnectTimeoutRef>>
  /\ lastDelay' = IF lifecycle = "mounted" /\ timers'[s] # 0 THEN timers'[s] ELSE lastDelay
  /\ IF lifecycle = "mounted" /\ ~sockets[s].requested
     THEN /\ failCount' = failCount + 1
          /\ failDelay' = timers'[s]
     ELSE UNCHANGED <<failCount, failDelay>>
  /\ UNCHANGED <<lifecycle, error, reconnectAttempts, connectDep, wsRef, nSockets,
                 providerVars, cycles, firedRA>>
  /\ UNCHANGED <<messageHandlers, otherVars>>

\* the setTimeout callback of onclose: setReconnectAttempts(prev => prev + 1);
\* connect(), the `connect` that created socket t
TimerFire(t) ==
  /\ ~EffectPending
  /\ timers[t] # 0
  /\ nSockets < MaxSockets
  /\ timers' = [timers EXCEPT ![t] = 0]
  /\ reconnectAttempts' = SetState(reconnectAttempts, reconnectAttempts + 1)
  /\ sockets' = [sockets EXCEPT ![nSockets + 1] = NewSocket(sockets[t].ra)]
  /\ wsRef' = nSockets + 1
  /\ nSockets' = nSockets + 1
  /\ cycles' = IF lifecycle = "mounted" THEN cycles + 1 ELSE cycles
  /\ firedRA' = IF lifecycle = "mounted" THEN reconnectAttempts' ELSE firedRA
  /\ UNCHANGED <<lifecycle, isConnected, error, connectDep, reconnectTimeoutRef,
                 providerVars, lastDelay, failCount, failDelay, polled>>
  /\ UNCHANGED <<messageHandlers, otherVars>>

\* The effect [connect, disconnect] after a render that changed `connect`:
\* its cleanup disconnect(), then the new connect()
RunEffect ==
  /\ EffectPending
  /\ nSockets < MaxSockets
  /\ connectDep' = reconnectAttempts
  /\ timers' = ClearTimer(timers)
  /\ sockets' = [CloseCurrent(sockets) EXCEPT ![nSockets + 1] = NewSocket(reconnectAttempts)]
  /\ wsRef' = nSockets + 1
  /\ nSockets' = nSockets + 1
  /\ isConnected' = FALSE
  /\ reconnectAttempts' = 0
  /\ polled' = (polled /\ isConnected' = isConnected)
  /\ UNCHANGED <<lifecycle, error, reconnectTimeoutRef, providerVars, lastDelay,
                 failCount, failDelay, cycles, firedRA>>
  /\ UNCHANGED <<messageHandlers, otherVars>>

\* Unmount: the effect cleanup disconnect(); the provider's cleanups unsubscribe
\* its handler and clear its interval, or disconnect() the mock service, whose
\* connect timeout is left pending
Unmount ==
  /\ lifecycle = "mounted"
  /\ ~EffectPending
  /\ lifecycle' = "unmounted"
  /\ timers' = ClearTimer(timers)
  /\ sockets' = CloseCurrent(sockets)
  /\ wsRef' = 0
  /\ isConnected' = FALSE
  /\ reconnectAttempts' = 0
  /\ polled' = (polled /\ isConnected' = isConnected)
  /\ IF useMockData
     THEN /\ mockWS' = [mockWS EXCEPT !.created = FALSE, !.isConnected = FALSE,
                                      !.interval = FALSE]
          /\ pIsConnected' = FALSE
          /\ UNCHANGED messageHandlers
     ELSE /\ messageHandlers' = Unsubscribe(messageHandlers, "provider")
          /\ UNCHANGED <<mockWS, pIsConnected>>
  /\ UNCHANGED <<error, connectDep, reconnectTimeoutRef, nSockets, realWebSocket, pError,
                 pReconnectAttempts, lastDelay, failCount, failDelay, cycles, firedRA>>
  /\ UNCHANGED <<dataVars, favVars, themeVars, queueVars, modelVars, useMockData, randoms, mockData,
                 sendVars, listenVars>>

\* setInterval(updateConnectionState, 1000): reads the object the effect closed over
UpdateConnectionState ==
  /\ lifecycle = "mounted"
  /\ ~useMockData
  /\ ~EffectPending
  /\ pIsConnected' = realWebSocket.isConnected
  /\ pError' = realWebSocket.error
  /\ pReconnectAttempts' = realWebSocket.reconnectAttempts
  /\ polled' = TRUE
  /\ UNCHANGED <<hookVars, realWebSocket, lastDelay, failCount, failDelay, cycles, firedRA>>
  /\ UNCHANGED <<messageHandlers, otherVars>>

\* the server sends a frame on an open socket
ServerSend(s, frames) ==
  /\ ~EffectPending
  /\ sockets[s].st = "open"
  /\ inbox = NoFrame
  /\ \E frame \in frames : inbox' = frame
  /\ UNCHANGED <<hookVars, messageHandlers, providerVars, historyVars, crowdData,
                 favVars, themeVars, queueVars, modelVars, appVars>>

\* ws.onmessage: JSON.parse(event.data), then every registered handler in
\* order, both inside one try whose catch logs the error
OnMessage(s) ==
  /\ ~EffectPending
  /\ sockets[s].st = "open"
  /\ inbox # NoFrame
  /\ inbox' = NoFrame
  /\ LET parsed == JSONParse(inbox)
         called == IF parsed.ok THEN Invoked(messageHandlers, parsed.data) ELSE <<>>
     IN /\ invoked' = called
        /\ thrown' = IF parsed.ok /\ FirstThrow(messageHandlers, parsed.data) # 0
                     THEN messageHandlers[FirstThrow(messageHandlers, parsed.data)]
                     ELSE "none"
        /\ lastParse' = IF ~parsed.ok THEN "failed"
                        ELSE IF lastParse = "failed" THEN "okAfterFailed"
                        ELSE "ok"
        /\ crowdData' = IF \E i \in 1..Len(called) : called[i] = "provider"
                        THEN ProviderHandler(crowdData, parsed.data)
                        ELSE crowdData
  /\ UNCHANGED <<hookVars, messageHandlers, providerVars, historyVars,
                 favVars, themeVars, queueVars, modelVars, mockVars, sendVars>>

\* onMessage(handler): messageHandlersRef.current.push(handler)
onMessage(handler) ==
  /\ lifecycle # "rendered"
  /\ ~EffectPending
  /\ \A i \in 1..Len(messageHandlers) : messageHandlers[i] # handler
  /\ messageHandlers' = Append(messageHandlers, handler)
  /\ UNCHANGED <<hookVars, providerVars, historyVars, otherVars>>

\* a caller runs the unsubscribe function onMessage returned to it
UnsubscribeHandler(handler) ==
  /\ ~EffectPending
  /\ \E i \in 1..Len(messageHandlers) : messageHandlers[i] = handler
  /\ messageHandlers' = Unsubscribe(messageHandlers, handler)
  /\ UNCHANGED <<hookVars, providerVars, historyVars, otherVars>>

\* if (wsRef.current && wsRef.current.readyState === WebSocket.OPEN)
CanSend_anyReadyState(ws) == ws # 0
CanSend(ws) == ws # 0 /\ sockets[ws].st = "open"

\* sendMessage(message): wsRef.current.send(JSON.stringify(message)) and true
\* when the current socket is open, else false
SendMessage ==
  /\ lifecycle # "rendered"
  /\ ~EffectPending
  /\ nSends < MaxSends
  /\ nSends' = nSends + 1
  /\ IF CanSend(wsRef)
     THEN /\ transmitted' = [transmitted EXCEPT ![wsRef] = @ + 1]
          /\ sendResult' = "true"
     ELSE /\ sendResult' = "false"
          /\ UNCHANGED transmitted
  /\ UNCHANGED <<hookVars, messageHandlers, providerVars, historyVars, dataVars, mockVars,
                 listenVars>>
  /\ UNCHANGED <<favVars, themeVars, queueVars, modelVars>>

\* ------------------------------------------------------------ mock service

\* the 500 ms timeout of the mock's connect(): onOpen, then the initial data to
\* the provider's message callback, then the update interval is set
MockConnect ==
  /\ ~EffectPending
  /\ mockWS.timeout
  /\ mockWS' = [mockWS EXCEPT !.isConnected = TRUE, !.timeout = FALSE, !.interval = TRUE,
                              !.messageCount = @ + 1]
  /\ pIsConnected' = SetState(pIsConnected, TRUE)
  /\ pError' = SetState(pError, "null")
  /\ \E initialData \in GeneratedArrays :
       crowdData' = SetState(crowdData, MockHandler(crowdData, initialData))
  /\ UNCHANGED <<hookVars, messageHandlers, realWebSocket, pReconnectAttempts, historyVars,
                 inbox, useMockData, randoms, mockData, sendVars, listenVars>>
  /\ UNCHANGED <<favVars, themeVars, queueVars, modelVars>>

\* the 3 s interval of the mock: a new array to the provider's message callback
MockUpdate ==
  /\ ~EffectPending
  /\ mockWS.interval
  /\ mockWS.isConnected
  /\ mockWS.messageCount < MaxUpdates
  /\ mockWS' = [mockWS EXCEPT !.messageCount = @ + 1]
  /\ \E updatedData \in GeneratedArrays :
       crowdData' = SetState(crowdData, MockHandler(crowdData, updatedData))
  /\ UNCHANGED <<hookVars, messageHandlers, providerVars, historyVars, inbox, useMockData,
                 randoms, mockData, sendVars, listenVars>>
  /\ UNCHANGED <<favVars, themeVars, queueVars, modelVars>>

\* one call of generateMockData, with the random draws of the initial state
GenerateMockData ==
  /\ randoms # <<>>
  /\ mockData = <<>>
  /\ mockData' = generateMockData(randoms)
  /\ UNCHANGED <<hookVars, messageHandlers, providerVars, historyVars, dataVars, useMockData,
                 mockWS, randoms, sendVars, listenVars>>
  /\ UNCHANGED <<favVars, themeVars, queueVars, modelVars>>

\* generateMockData over every vector of random draws
InitMockGen ==
  /\ InitClient
  /\ \E rs \in RandomVectors : InitApp(TRUE, rs)
  /\ InitFav(NoItem)
  /\ InitTheme("null")
  /\ InitModel

NextMockGen == GenerateMockData

SpecMockGen == InitMockGen /\ [][NextMockGen]_vars

\* the app with USE_MOCK_DATA set to true
InitMockMode == InitClient /\ InitApp(TRUE, <<>>) /\ InitFav(NoItem) /\ InitTheme("null") /\ InitModel

NextMock ==
  \/ MountEffect
  \/ MockConnect
  \/ MockUpdate
  \/ \E s \in SocketIds : OnOpen(s)
  \/ \E s \in SocketIds : OnError(s)
  \/ \E s \in SocketIds : OnClose(s)
  \/ Unmount

SpecMock == InitMockMode /\ [][NextMock]_vars

\* ---------------------------------------------------- FavoritesProvider

\* useEffect(() => { loadPinnedLocations(); }, []): up to await AsyncStorage.getItem
FavMount ==
  /\ favLoad = "idle"
  /\ favLoad' = "requested"
  /\ favOps' = Append(favOps, GetRequest)
  /\ UNCHANGED <<favStorage, favGot, pinnedLocations, favLoading, nToggles,
                 clientVars, themeVars, queueVars, modelVars>>

\* AsyncStorage serves its oldest request
FavStorageStep ==
  /\ favOps # <<>>
  /\ favOps' = Tail(favOps)
  /\ IF Head(favOps).op = "get"
     THEN /\ favGot' = favStorage
          /\ favLoad' = "resolved"
          /\ UNCHANGED favStorage
     ELSE /\ favStorage' = Head(favOps).text
          /\ UNCHANGED <<favGot, favLoad>>
  /\ UNCHANGED <<pinnedLocations, favLoading, nToggles, clientVars, themeVars, queueVars, modelVars>>

\* loadPinnedLocations after its await: if (stored) setPinnedLocations(JSON.parse(stored));
\* finally setLoading(false)
FavLoadResume ==
  /\ favLoad = "resolved"
  /\ favLoad' = "done"
  /\ pinnedLocations' = IF favGot # NoItem THEN Parse(favGot) ELSE pinnedLocations
  /\ favLoading' = FALSE
  /\ UNCHANGED <<favStorage, favOps, favGot, nToggles, clientVars, themeVars, queueVars, modelVars>>

\* togglePin(locationId): the updater computes newPinned and calls
\* savePinnedLocations(newPinned), which requests setItem
TogglePin(locationId) ==
  /\ favLoad # "idle"
  /\ nToggles < MaxToggles
  /\ nToggles' = nToggles + 1
  /\ pinnedLocations' = Toggled(pinnedLocations, locationId)
  /\ favOps' = Append(favOps, SetRequest(Stringify(pinnedLocations')))
  /\ UNCHANGED <<favStorage, favLoad, favGot, favLoading, clientVars, themeVars, queueVars, modelVars>>

NextFav ==
  \/ FavMount
  \/ FavStorageStep
  \/ FavLoadResume
  \/ \E id \in PinIds : TogglePin(id)

SpecFav == InitStoredFavorites /\ [][NextFav]_vars

\* -------------------------------------------------------- ThemeProvider

\* useEffect(() => { loadTheme(); }, []): up to await AsyncStorage.getItem
ThemeMount ==
  /\ themeLoad = "idle"
  /\ themeLoad' = "requested"
  /\ themeOps' = Append(themeOps, GetRequest)
  /\ UNCHANGED <<themeStorage, themeGot, theme, isLoading, nThemeCalls,
                 clientVars, favVars, queueVars, modelVars>>

\* AsyncStorage serves its oldest request
ThemeStorageStep ==
  /\ themeOps # <<>>
  /\ themeOps' = Tail(themeOps)
  /\ IF Head(themeOps).op = "get"
     THEN /\ themeGot' = themeStorage
          /\ themeLoad' = "resolved"
          /\ UNCHANGED themeStorage
     ELSE /\ themeStorage' = Head(themeOps).text
          /\ UNCHANGED <<themeGot, themeLoad>>
  /\ UNCHANGED <<theme, isLoading, nThemeCalls, clientVars, favVars, queueVars, modelVars>>

\* loadTheme after its await: a saved 'light' or 'dark' is set; finally setIsLoading(false)
ThemeLoadResume ==
  /\ themeLoad = "resolved"
  /\ themeLoad' = "done"
  /\ theme' = IF themeGot # "null" /\ (themeGot = "light" \/ themeGot = "dark")
              THEN themeGot ELSE theme
  /\ isLoading' = FALSE
  /\ UNCHANGED <<themeStorage, themeOps, themeGot, nThemeCalls, clientVars, favVars, queueVars, modelVars>>

\* toggleTheme
ToggleTheme ==
  /\ themeLoad # "idle"
  /\ nThemeCalls < MaxThemeCalls
  /\ nThemeCalls' = nThemeCalls + 1
  /\ theme' = IF theme = "light" THEN "dark" ELSE "light"
  /\ themeOps' = Append(themeOps, SetRequest(theme'))
  /\ UNCHANGED <<themeStorage, themeLoad, themeGot, isLoading, clientVars, favVars, queueVars, modelVars>>

\* setThemeMode(mode)
SetThemeMode(mode) ==
  /\ themeLoad # "idle"
  /\ nThemeCalls < MaxThemeCalls
  /\ nThemeCalls' = nThemeCalls + 1
  /\ IF mode # "light" /\ mode # "dark"
     THEN UNCHANGED <<theme, themeOps>>
     ELSE /\ theme' = mode
          /\ themeOps' = Append(themeOps, SetRequest(mode))
  /\ UNCHANGED <<themeStorage, themeLoad, themeGot, isLoading, clientVars, favVars, queueVars, modelVars>>

NextTheme ==
  \/ ThemeMount
  \/ ThemeStorageStep
  \/ ThemeLoadResume
  \/ ToggleTheme
  \/ \E mode \in RequestedModes : SetThemeMode(mode)

SpecTheme == InitStoredTheme /\ [][NextTheme]_vars

\* ----------------------------------------------------------- FrameQueue

Frame(c, n) == [camera |-> c, seq |-> n]

\* a camera worker captures its next frame and enqueues it: queued when there
\* is room, else the worker blocks with the frame in hand
Capture(c) ==
  /\ producer[c].pc = "idle"
  /\ producer[c].captured < MaxFrames
  /\ IF HasRoom(queue)
     THEN /\ queue' = Append(queue, Frame(c, producer[c].captured + 1))
          /\ producer' = [producer EXCEPT ![c].captured = @ + 1]
     ELSE /\ producer' = [producer EXCEPT ![c].captured = @ + 1, ![c].pc = "blocked",
                                          ![c].waited = 0]
          /\ UNCHANGED queue
  /\ UNCHANGED <<drops, dequeued, clientVars, favVars, themeVars, modelVars>>

\* a blocked enqueue finds room and completes
EnqueueAfterWait(c) ==
  /\ producer[c].pc = "blocked"
  /\ HasRoom(queue)
  /\ queue' = Append(queue, Frame(c, producer[c].captured))
  /\ producer' = [producer EXCEPT ![c].pc = "idle", ![c].waited = 0]
  /\ UNCHANGED <<drops, dequeued, clientVars, favVars, themeVars, modelVars>>

\* the timeout of a blocked enqueue elapses: the incoming frame, or the oldest
\* queued one, is dropped and the drop is counted
EnqueueTimesOut(c) ==
  /\ TimeoutDue(c)
  /\ \/ UNCHANGED queue
     \/ /\ queue # <<>>
        /\ queue' = Append(Tail(queue), Frame(c, producer[c].captured))
  /\ drops' = drops + 1
  /\ producer' = [producer EXCEPT ![c].pc = "idle", ![c].waited = 0]
  /\ UNCHANGED <<dequeued, clientVars, favVars, themeVars, modelVars>>

\* a consumer worker takes the oldest frame
Dequeue ==
  /\ queue # <<>>
  /\ queue' = Tail(queue)
  /\ dequeued' = dequeued + 1
  /\ UNCHANGED <<producer, drops, clientVars, favVars, themeVars, modelVars>>

\* the clock advances one tick; an enqueue whose timeout is due returns first
Tick ==
  /\ \E c \in Cameras : producer[c].pc = "blocked"
  /\ \A c \in Cameras : ~TimeoutDue(c)
  /\ producer' = [c \in Cameras |->
                    IF producer[c].pc = "blocked"
                    THEN [producer[c] EXCEPT !.waited = @ + 1]
                    ELSE producer[c]]
  /\ UNCHANGED <<queue, drops, dequeued, clientVars, favVars, themeVars, modelVars>>

NextQueue ==
  \/ \E c \in Cameras : Capture(c)
  \/ \E c \in Cameras : EnqueueAfterWait(c)
  \/ \E c \in Cameras : EnqueueTimesOut(c)
  \/ Dequeue
  \/ Tick

SpecQueue == Init /\ [][NextQueue]_vars

\* ------------------------------------------- aggregation / evaluation stage

\* consumer worker w takes the oldest frame of the FrameQueue
Take(w) ==
  /\ w <= poolSize
  /\ worker[w].pc = "idle"
  /\ queue # <<>>
  /\ queue' = Tail(queue)
  /\ dequeued' = dequeued + 1
  /\ worker' = [worker EXCEPT ![w] = [pc |-> "busy", frame |-> <<Head(queue)>>]]
  /\ UNCHANGED <<producer, drops, poolSize, delivered, skipped, evalVars, clientVars,
                 favVars, themeVars>>

\* worker w aggregates and evaluates its frame and the ResultSink forwards the
\* payload to the publisher's send loop
Process(w) ==
  /\ worker[w].pc = "busy"
  /\ delivered' = Forward(delivered, Payload(worker[w].frame[1]))
  /\ worker' = [worker EXCEPT ![w] = IdleWorker]
  /\ UNCHANGED <<queueVars, poolSize, skipped, evalVars, clientVars, favVars, themeVars>>

\* the detector raises on worker w's composite image
DetectorError(w) ==
  /\ worker[w].pc = "busy"
  /\ skipped' = skipped \cup {worker[w].frame[1]}
  /\ worker' = [worker EXCEPT ![w] = AfterDetectorError(w)]
  /\ UNCHANGED <<queueVars, poolSize, delivered, evalVars, clientVars, favVars, themeVars>>

\* the pipeline started with one or more consumer workers
InitPipeline ==
  /\ InitClient
  /\ InitApp(FALSE, <<>>)
  /\ InitFav(NoItem)
  /\ InitTheme("null")
  /\ InitQueue
  /\ InitEval(<<ScenarioCapacity>>)
  /\ \E n \in Workers : InitPipe(n)

NextPipeline ==
  \/ \E c \in Cameras : Capture(c)
  \/ \E c \in Cameras : EnqueueAfterWait(c)
  \/ \E c \in Cameras : EnqueueTimesOut(c)
  \/ Tick
  \/ \E w \in Workers : Take(w)
  \/ \E w \in Workers : Process(w)
  \/ \E w \in Workers : DetectorError(w)

SpecPipeline == InitPipeline /\ [][NextPipeline]_vars

\* ------------------------------------------------- OccupancyEvaluator

\* one evaluation cycle: the detections of the camera's composite image are
\* partitioned into per-zone counts ds and the occupancy summary is computed
Evaluate(ds) ==
  /\ detected' = ds
  /\ summary' = Summarise(zones, ds)
  /\ UNCHANGED <<zones, pipeVars, queueVars, clientVars, favVars, themeVars>>

NextOccupancy == \E ds \in DetectedCounts(zones) : Evaluate(ds)

SpecOccupancy == InitOccupancy /\ [][NextOccupancy]_vars

Next ==
  \/ MountEffect
  \/ \E s \in SocketIds : OnOpen(s)
  \/ \E s \in SocketIds : OnError(s)
  \/ \E s \in SocketIds : OnClose(s)
  \/ \E t \in SocketIds : TimerFire(t)
  \/ RunEffect
  \/ Unmount
  \/ UpdateConnectionState

Spec == Init /\ [][Next]_vars

\* the hook with a caller of sendMessage
NextSend ==
  \/ MountEffect
  \/ \E s \in SocketIds : OnOpen(s)
  \/ \E s \in SocketIds : OnClose(s)
  \/ \E t \in SocketIds : TimerFire(t)
  \/ RunEffect
  \/ Unmount
  \/ SendMessage

SpecSend == Init /\ [][NextSend]_vars

\* The message path: the first socket opens and the server sends frames
NextData ==
  \/ MountEffect
  \/ \E s \in SocketIds : OnOpen(s)
  \/ \E s \in SocketIds : ServerSend(s, Frames)
  \/ \E s \in SocketIds : OnMessage(s)

SpecData == Init /\ [][NextData]_vars

\* The message path with frames that name known and unknown locations
NextFrameEffect ==
  \/ MountEffect
  \/ \E s \in SocketIds : OnOpen(s)
  \/ \E s \in SocketIds : ServerSend(s, EffectFrames)
  \/ \E s \in SocketIds : OnMessage(s)

SpecFrameEffect == Init /\ [][NextFrameEffect]_vars

\* The hook with the provider and other listeners on its message path
NextListeners ==
  \/ MountEffect
  \/ \E s \in SocketIds : OnOpen(s)
  \/ \E s \in SocketIds : OnClose(s)
  \/ \E t \in SocketIds : TimerFire(t)
  \/ RunEffect
  \/ \E handler \in Listeners : onMessage(handler)
  \/ \E handler \in Listeners : UnsubscribeHandler(handler)
  \/ \E s \in SocketIds : ServerSend(s, ListenerFrames)
  \/ \E s \in SocketIds : OnMessage(s)

SpecListeners == Init /\ [][NextListeners]_vars

\* setTimeout callbacks run and React commits its renders: the only scheduling
\* the liveness of the hook relies on
LiveSpec == Spec /\ WF_vars(\E t \in SocketIds : TimerFire(t)) /\ WF_vars(RunEffect)

\* ------------------------------------------------------------------ claims

\* C1: the delays scheduled by successive onclose events with no open in
\* between never decrease and never exceed the ceiling, and the first close
\* after an open (or after the start) schedules the base delay.
C1_BackoffMonotone ==
  [][(lastDelay' # lastDelay /\ lastDelay' # 0) =>
       /\ lastDelay' <= MaxDelay
       /\ lastDelay # 0 => lastDelay' >= lastDelay
       /\ lastDelay = 0 => lastDelay' = BaseDelay]_vars

\* C2: the k-th consecutive unrequested close since the last open is followed
\* by a wait of min(base * 2^(k-1), ceiling): 1 s, 2 s, 4 s, ...
C2_ExponentialDelays ==
  failCount >= 1 => failDelay = Min(BaseDelay * (2 ^ (failCount - 1)), MaxDelay)

C4_AttemptCounter ==
  /\ reconnectAttempts \in 0..MaxReconnectAttempts
  /\ cycles >= 1 => firedRA = cycles

\* C5: once updateConnectionState has run after the hook's isConnected last
\* changed, the provider's isConnected equals the hook's.
C5_StatusFollowsSocket ==
  (lifecycle = "mounted" /\ polled) => pIsConnected = isConnected

\* C6: after the cleanup disconnect() of an unmount no socket is open, no
\* reconnect timer is pending and no further WebSocket is created.
C6_CleanupStopsEverything ==
  [][lifecycle' = "unmounted" =>
       /\ \A s \in SocketIds : sockets'[s].st # "open" /\ timers'[s] = 0
       /\ lifecycle = "unmounted" => nSockets' = nSockets]_vars
\* C7: delivering a frame leaves, for every message of it that resolves to an
\* id L and is the last of the frame to do so, count = people_detected,
\* occupancyPercent = occupancy_percent and level =
\* calculateCrowdLevel(occupancy_percent) in crowdData[L]; and every entry's
\* level is calculateCrowdLevel of the entry's occupancyPercent.
C7_EntryMatchesMessage ==
  [][/\ \A id \in LocationIds :
          crowdData'[id].present =>
            crowdData'[id].level = calculateCrowdLevel(crowdData'[id].occupancyPercent)
     /\ (inbox # NoFrame /\ inbox' = NoFrame) =>
          \A i \in 1..Len(inbox.items) :
            LET msg == inbox.items[i]
                L == getLocationIdByName(msg.location_name)
            IN (/\ L # Null
                /\ \A j \in (i + 1)..Len(inbox.items) :
                     getLocationIdByName(inbox.items[j].location_name) # L)
               => /\ crowdData'[L].present
                  /\ crowdData'[L].count = msg.people_detected
                  /\ crowdData'[L].occupancyPercent = msg.occupancy_percent
                  /\ crowdData'[L].level = calculateCrowdLevel(msg.occupancy_percent)]_vars

\* C7 witness: a delivered frame left a medium entry for One World and a
\* high one for Flint Loop
C7_Witness ==
  /\ inbox = NoFrame
  /\ crowdData["ow"].present /\ crowdData["ow"].level = "medium"
  /\ crowdData["flint"].present /\ crowdData["flint"].level = "high"
  /\ crowdData["flint"].count = 7
\* C8: once the initial load has finished and no setItem is in flight, the
\* list a later mount would load from '@crowdsense_favorites' (none stored
\* counts as the empty list) is the in-memory pinnedLocations.
C8_FavoritesPersisted ==
  (favLoad = "done" /\ NoWriteInFlight(favOps)) =>
    (IF favStorage = NoItem THEN <<>> ELSE Parse(favStorage)) = pinnedLocations

\* C9: the theme is 'light' or 'dark', and once the initial load has
\* finished and no setItem is in flight, the theme a later mount would start
\* with from '@crowdsense_theme' (none stored counts as the default) is the
\* theme in use.
C9_ThemePersisted ==
  /\ theme \in ThemeModes
  /\ (themeLoad = "done" /\ NoWriteInFlight(themeOps)) =>
       (IF themeStorage \in ThemeModes THEN themeStorage ELSE "dark") = theme

\* C10: the FrameQueue never holds more frames than its capacity, and no
\* enqueue is still blocked after its timeout has passed.
C10_QueueBounded ==
  /\ Len(queue) <= QueueCapacity
  /\ \A c \in Cameras : producer[c].pc = "blocked" => producer[c].waited <= EnqueueTimeout

\* C10 witness: the queue is full and an enqueue blocked on it has already
\* been resolved by a drop
C10_Witness ==
  /\ Len(queue) = QueueCapacity
  /\ drops >= 1
  /\ \E c \in Cameras : producer[c].pc = "blocked" /\ producer[c].waited = EnqueueTimeout

\* C11: for every zone configuration and every vector of per-zone detected
\* counts, each zone's occupancy percent lies in 0..100, the summary's free
\* and occupied lists are disjoint and together hold every configured zone
\* exactly once, a zone being occupied exactly when its detected count is > 0;
\* a zone of capacity 10 has 30% with 3 detections and 0% with none.
C11_OccupancyPartition ==
  summary.done =>
    LET n == Len(zones)
        inFree(i) == \E k \in 1..Len(summary.free) : summary.free[k] = i
        inOccupied(i) == \E k \in 1..Len(summary.occupied) : summary.occupied[k] = i
    IN /\ \A i \in 1..n : summary.occupancies[i].percent \in 0..100
       /\ \A i \in 1..n : inOccupied(i) <=> detected[i] > 0
       /\ \A i \in 1..n : inFree(i) <=> ~inOccupied(i)
       /\ \A k \in 1..Len(summary.free) : summary.free[k] \in 1..n
       /\ \A k \in 1..Len(summary.occupied) : summary.occupied[k] \in 1..n
       /\ Len(summary.free) + Len(summary.occupied) = n
       /\ \A i \in 1..n :
            zones[i] = ScenarioCapacity =>
              /\ detected[i] = 3 => summary.occupancies[i].percent = 30
              /\ detected[i] = 0 => summary.occupancies[i].percent = 0

\* C11 witness: a summary with one zone over its capacity and occupied and a
\* second zone empty and free
C11_Witness ==
  /\ summary.done
  /\ Len(zones) = 2
  /\ detected[1] > zones[1]
  /\ detected[2] = 0
  /\ summary.occupied = <<1>>
  /\ summary.free = <<2>>

\* C12: every record generateMockData produces has people_detected >= 0 and
\* occupancy_percent within 0..100, whatever Math.random() returns.
C12_MockRecordsInRange ==
  \A i \in 1..Len(mockData) :
    /\ mockData[i].people_detected >= 0
    /\ mockData[i].occupancy_percent[1] \in 0..100
    /\ mockData[i].occupancy_percent[1] = 100 => Len(mockData[i].occupancy_percent) = 1

\* C12 witness: an array whose Paula Plaza record was varied down to 0 people
\* and whose O'Brian Hall record was varied up
C12_Witness ==
  /\ Len(mockData) = 5
  /\ mockData[4].people_detected = 0
  /\ mockData[4].occupancy_percent = Number(0)
  /\ mockData[2].people_detected > MOCK_DATA[2].people_detected

\* C16: with USE_MOCK_DATA true the hook does not connect: no WebSocket is
\* ever created and no reconnect timer is ever scheduled.
C16_MockModeNeverConnects ==
  useMockData => (nSockets = 0 /\ \A s \in SocketIds : timers[s] = 0)

\* C17: with USE_MOCK_DATA true, every location_name of MOCK_DATA resolves
\* to a location id, and once the mock has delivered its first update
\* crowdData holds an entry for each of the five mock locations.
C17_MockLocationsResolve ==
  (useMockData /\ lifecycle = "mounted" /\ mockWS.isConnected) =>
    \A i \in 1..Len(MOCK_DATA) :
      LET locationId == getLocationIdByName(MOCK_DATA[i].location_name)
      IN locationId # Null /\ crowdData[locationId].present

\* the payloads of one camera stand in the send loop's arrival order in capture order
InCaptureOrder(sent) ==
  \A i, j \in 1..Len(sent) :
    (i < j /\ sent[i].camera = sent[j].camera) => sent[i].seq < sent[j].seq

C14_DetectorErrorIsolated ==
  [][/\ skipped' # skipped =>
          /\ queue' = queue
          /\ delivered' = delivered
          /\ \A w \in Workers :
               \/ worker'[w] = worker[w]
               \/ /\ worker[w].pc = "busy"
                  /\ skipped' = skipped \cup {worker[w].frame[1]}
                  /\ worker'[w] = IdleWorker
     /\ LET sent == {delivered'[i] : i \in 1..Len(delivered')}
            held == {worker'[w].frame[1] : w \in {v \in Workers : worker'[v].pc = "busy"}}
        IN /\ Cardinality(sent) = Len(delivered')
           /\ Cardinality(held) = Cardinality({v \in Workers : worker'[v].pc = "busy"})
           /\ sent \cap skipped' = {}
           /\ held \cap (sent \cup skipped') = {}
           /\ Cardinality(sent) + Cardinality(skipped') + Cardinality(held) = dequeued'
           /\ \A w \in Workers : worker'[w].pc \in {"idle", "busy"}]_vars

\* C14 witness: camera A's first frame was skipped, its next frame and a
\* frame of camera B were delivered
C14_Witness ==
  /\ skipped = {Frame("A", 1)}
  /\ \E i \in 1..Len(delivered) : delivered[i].camera = "A" /\ delivered[i].seq = 2
  /\ \E i \in 1..Len(delivered) : delivered[i].camera = "B"

\* C15: a sendMessage call hands the message to the socket and returns true
\* exactly when wsRef.current is a socket whose readyState is OPEN; otherwise
\* it hands nothing to any socket and returns false; either way isConnected,
\* error and reconnectAttempts are as before.
C15_SendOnlyWhenOpen ==
  [][nSends' # nSends =>
       /\ IF wsRef # 0 /\ sockets[wsRef].st = "open"
          THEN /\ sendResult' = "true"
               /\ transmitted' = [transmitted EXCEPT ![wsRef] = @ + 1]
          ELSE /\ sendResult' = "false"
               /\ transmitted' = transmitted
       /\ UNCHANGED <<isConnected, error, reconnectAttempts, sockets, timers>>]_vars

\* C15 witness: one message went out on a socket that has closed since, and
\* the next sendMessage returned false while the current socket was connecting
C15_Witness ==
  /\ sendResult = "false"
  /\ nSends = 2
  /\ wsRef # 0
  /\ sockets[wsRef].st = "connecting"
  /\ \E s \in SocketIds : transmitted[s] = 1 /\ sockets[s].st = "closed"

\* C18: every registered handler is called once, in registration order, for
\* each frame that JSON.parse accepts, on whichever socket it arrives; a
\* handler that has unsubscribed is not called.
C18_EveryHandlerOncePerMessage ==
  [][(inbox # NoFrame /\ inbox' = NoFrame /\ inbox.kind # "invalid")
       => invoked' = messageHandlers]_vars

\* C19: when a handler throws on a message, every other registered handler
\* still receives that message, and the connection state is as before.
C19_ThrowingHandlerIsolated ==
  [][(inbox # NoFrame /\ inbox' = NoFrame /\ thrown' # "none")
       => /\ \A i \in 1..Len(messageHandlers) :
               \E j \in 1..Len(invoked') : invoked'[j] = messageHandlers[i]
          /\ UNCHANGED <<isConnected, error, reconnectAttempts, sockets>>]_vars

\* C20: a frame that is not JSON calls no handler, leaves isConnected, error,
\* reconnectAttempts and crowdData as they were and the socket open; the valid
\* message that follows it reaches every registered handler and the provider's
\* handler stores it.
C20_InvalidFrameIgnored ==
  [][/\ (inbox = InvalidFrame /\ inbox' = NoFrame)
          => /\ invoked' = <<>>
             /\ thrown' = "none"
             /\ UNCHANGED <<isConnected, error, reconnectAttempts, crowdData, sockets,
                            timers, wsRef, messageHandlers>>
     /\ (lastParse = "failed" /\ inbox.kind = "object" /\ inbox' = NoFrame)
          => /\ invoked' = messageHandlers
             /\ crowdData' = IF \E i \in 1..Len(messageHandlers) :
                                   messageHandlers[i] = "provider"
                             THEN ProviderHandler(crowdData, inbox)
                             ELSE crowdData]_vars

\* C20 witness: after a frame that failed to parse, the next message was
\* handed to the provider and another listener, and crowdData holds its entry
C20_Witness ==
  /\ lastParse = "okAfterFailed"
  /\ Len(invoked) >= 2
  /\ invoked = messageHandlers
  /\ \E l \in DOMAIN crowdData : crowdData[l].present

\* C21: delivering a frame of messages leaves unchanged every crowdData entry
\* whose key is not the id of a location one of the messages names; a frame
\* none of whose names is a key of nameMap (unknown or null names) leaves
\* crowdData unchanged altogether; and for each id the frame names, the entry
\* is that of the last message of the frame naming it.
C21_OnlyNamedLocationChanges ==
  [][(inbox # NoFrame /\ inbox' = NoFrame /\ inbox.kind \in {"object", "array"}) =>
       LET known(i) ==
             /\ inbox.items[i].location_name # NullName
             /\ \E e \in nameMap :
                  e[1] = Trim(ToLowerCase(inbox.items[i].location_name))
           idOf(i) ==
             (CHOOSE e \in nameMap :
                e[1] = Trim(ToLowerCase(inbox.items[i].location_name)))[2]
           msgs == 1..Len(inbox.items)
       IN /\ \A k \in DOMAIN crowdData :
               (\A i \in msgs : known(i) => idOf(i) # k) => crowdData'[k] = crowdData[k]
          /\ (\A i \in msgs : ~known(i)) => crowdData' = crowdData
          /\ \A i \in msgs :
               (known(i) /\ \A j \in msgs : (j > i /\ known(j)) => idOf(j) # idOf(i))
                 => crowdData'[idOf(i)] = Entry(inbox.items[i])]_vars

====
